---- MODULE Spec2Model ----
(***************************************************************************)
(* Model of tools/stress-testing/task_allocation_test.py: the Task and     *)
(* Worker resource model, the three allocation strategies, the priority    *)
(* TaskQueue and the TaskAllocationSimulator with its three cooperative    *)
(* loops (generate_tasks, allocate_tasks, process_tasks) under the asyncio *)
(* event loop.  Memory amounts are the program's own numbers; a task or a  *)
(* worker is named by its index (task_00000i is task i+1, worker_000i is   *)
(* worker i+1) and Python's None is 0.                                     *)
(***************************************************************************)
EXTENDS Integers, Sequences, FiniteSets, TLC

\* ---------------------------------------------------------------- bounds
MaxWorkers == 2     \* workers of a simulator: 0..MaxWorkers
MaxTasks == 4       \* num_tasks of a run: 0..MaxTasks
MaxClock == 2       \* readings of time.time(): 1..MaxClock
MaxPool == 3        \* workers of a test pool: 1..MaxPool
MaxPoolTasks == 4   \* tasks a test creates for its pool
MaxEnqueues == 5    \* enqueue calls of a test of the TaskQueue
MaxValues == 4      \* length of a list passed to _calculate_gini_coefficient
MaxCount == 3       \* largest number in such a list
MaxHistory == 4     \* length of a latency history given to _calculate_metrics
MaxLatency == 2     \* largest latency in such a history
MaxRerunTasks == 3  \* tasks of all runs on one simulator object together
MaxAllocWorkers == 1  \* workers of the simulator whose allocator is followed alone
MaxAllocTasks == 5  \* tasks generated for that allocator
MaxLiveWorkers == 1  \* workers of the simulator whose loops are never cancelled
MaxApiAllocations == 4  \* allocations, over all workers, after which a test allocates only new tasks

\* ------------------------------------------------------ program constants
GpuMemory == 24576
None == 0

\* the module's global total_tasks, set where the file is run as a script
GlobalTotalTasks == 10000

\* random.randint(1, 10): two of the ten values
Priorities == {1, 2}

\* random.choice([1024, 2048, 4096, 8192]): the value of which three fill a worker
MemoryChoices == {8192}

\* random.choice([1024, 2048, 4096, 8192]): two of the values, for the
\* allocator followed alone
SizedChoices == {4096, 8192}

\* the Worker(gpu_memory=...) of a test's pool and the
\* Task(gpu_memory_required=...) of its tasks
PoolCapacities == {4, 10}
PoolSizes == {2, 4}

\* the current_index a test's RoundRobinAllocation starts with
PoolCursors == {0, 1}

Strategies == {"RoundRobin", "LeastLoaded", "BestFit"}

\* the duration argument of run_simulation: zero, and the default of --duration
Durations == {0, 60}

\* the latency histories a simulator has when _calculate_metrics is called
LatencyHistories == UNION {[1..n -> 0..MaxLatency] : n \in 0..MaxHistory}

\* the values lists a caller passes to _calculate_gini_coefficient
GiniValues == UNION {[1..n -> 0..MaxCount] : n \in 0..MaxValues}

VARIABLES
  workers,               \* simulator.workers: list of Worker objects
  tasks,                 \* every Task object created so far, by index
  queue,                 \* simulator.task_queue.queue: list of task indices
  completed_tasks,       \* simulator.completed_tasks: list of task indices
  allocation_latencies,  \* simulator.allocation_latencies
  strategy,              \* class of simulator.strategy
  current_index,         \* RoundRobinAllocation.current_index
  num_tasks,             \* argument of run_simulation
  clock,                 \* time.time(), in generator inter-arrival periods
  running,               \* the coroutine that has control, or "loop"
  ready,                 \* asyncio's queue of coroutines ready to run
  main_pc,               \* position of run_simulation
  gen_pc,                \* position of generate_tasks
  gen_i,                 \* loop variable i of generate_tasks
  alloc_pc,              \* position of allocate_tasks
  alloc_task,            \* local variable task of allocate_tasks
  alloc_worker,          \* local variable worker of allocate_tasks
  proc_pc,               \* position of process_tasks
  proc_i,                \* index of the worker the for loop of process_tasks is at
  report,                \* the TaskAllocationMetrics returned
  duration,              \* argument of run_simulation
  gini_call,             \* the last call of _calculate_gini_coefficient: argument, result
  always_eligible,       \* history: the workers eligible at every strategy call so far
  stamp,                 \* history: per task, the number of the enqueue call that put it in
  reference,             \* history: a rotation over the full worker list
  dequeued               \* history: what the dequeue calls of a queue test returned

vars == <<workers, tasks, queue, completed_tasks, allocation_latencies, strategy,
          current_index, num_tasks, clock, running, ready, main_pc, gen_pc, gen_i,
          alloc_pc, alloc_task, alloc_worker, proc_pc, proc_i, report,
          duration, gini_call, always_eligible, stamp, reference, dequeued>>

\* ---------------------------------------------------------------- helpers
Range(s) == {s[i] : i \in DOMAIN s}

RECURSIVE SumSeq(_)
SumSeq(s) == IF s = <<>> THEN 0 ELSE Head(s) + SumSeq(Tail(s))

\* list.remove(x): drops the first occurrence of x
RemoveFirst(s, x) ==
  LET i == CHOOSE k \in DOMAIN s : s[k] = x /\ \A j \in 1..(k - 1) : s[j] # x
  IN  SubSeq(s, 1, i - 1) \o SubSeq(s, i + 1, Len(s))

\* One insertion of a stable ascending sort: p goes behind every element whose
\* key is not larger than its own (sorted is ascending by key).
InsertByKey(sorted, p) ==
  SelectSeq(sorted, LAMBDA e : e[1] <= p[1]) \o <<p>>
    \o SelectSeq(sorted, LAMBDA e : e[1] > p[1])

\* list.sort(key=...) on <<key, item>> pairs: ascending by key, stable.
RECURSIVE StableSort(_)
StableSort(pairs) ==
  IF pairs = <<>> THEN <<>>
  ELSE InsertByKey(StableSort(SubSeq(pairs, 1, Len(pairs) - 1)), pairs[Len(pairs)])

Items(pairs) == [k \in DOMAIN pairs |-> pairs[k][2]]

\* ------------------------------------------------------------------- Task
NewTask(p, m, now) ==
  [priority |-> p, gpu_memory_required |-> m, created_at |-> now,
   allocated_at |-> None, worker_id |-> None]

\* an allocate_to_worker that does not set allocated_at
AllocateWithoutTime(t, wid, now) == [t EXCEPT !.worker_id = wid]

allocate_to_worker(t, wid, now) == [t EXCEPT !.worker_id = wid, !.allocated_at = now]

get_allocation_latency(t) ==
  IF t.allocated_at # None THEN t.allocated_at - t.created_at ELSE 0

\* ----------------------------------------------------------------- Worker
NewWorker(m) ==
  [gpu_memory |-> m, available_memory |-> m, allocated_tasks |-> <<>>,
   completed_tasks |-> 0, is_active |-> TRUE]

\* a can_accept_task that does not look at is_active
CanAcceptIfRoom(w, t) == w.available_memory >= t.gpu_memory_required

\* a can_accept_task that does not look at the memory
CanAcceptIfActive(w, t) == w.is_active

can_accept_task(w, t) == w.is_active /\ w.available_memory >= t.gpu_memory_required

\* an allocate_task that takes no memory
WorkerAllocateFree(w, ti, t) ==
  IF can_accept_task(w, t)
  THEN [w EXCEPT !.allocated_tasks = Append(@, ti)]
  ELSE w

\* Worker.allocate_task, the worker's side; ti is the task's index, t the task
WorkerAllocate(w, ti, t) ==
  IF can_accept_task(w, t)
  THEN [w EXCEPT !.allocated_tasks = Append(@, ti),
                 !.available_memory = @ - t.gpu_memory_required]
  ELSE w

\* a complete_task that counts the completion and frees the memory but leaves
\* the task in allocated_tasks
WorkerCompleteKeepsTask(w, ti, t) ==
  IF ti \in Range(w.allocated_tasks)
  THEN [w EXCEPT !.available_memory = @ + t.gpu_memory_required,
                 !.completed_tasks = @ + 1]
  ELSE w

\* a complete_task that does not give the memory back
WorkerCompleteKeepsMemory(w, ti, t) ==
  IF ti \in Range(w.allocated_tasks)
  THEN [w EXCEPT !.allocated_tasks = RemoveFirst(@, ti),
                 !.completed_tasks = @ + 1]
  ELSE w

\* a complete_task that does not count the completion
WorkerCompleteUncounted(w, ti, t) ==
  IF ti \in Range(w.allocated_tasks)
  THEN [w EXCEPT !.allocated_tasks = RemoveFirst(@, ti),
                 !.available_memory = @ + t.gpu_memory_required]
  ELSE w

\* Worker.complete_task
WorkerComplete(w, ti, t) ==
  IF ti \in Range(w.allocated_tasks)
  THEN [w EXCEPT !.allocated_tasks = RemoveFirst(@, ti),
                 !.available_memory = @ + t.gpu_memory_required,
                 !.completed_tasks = @ + 1]
  ELSE w

\* ------------------------------------------------------------- strategies
\* a filter that does not look at is_active
EligibleIgnoringActive(ws, t) ==
  SelectSeq([i \in DOMAIN ws |-> i],
            LAMBDA i : ws[i].available_memory >= t.gpu_memory_required)

\* [w for w in workers if w.can_accept_task(task)], as worker indices
Eligible(ws, t) ==
  SelectSeq([i \in DOMAIN ws |-> i], LAMBDA i : can_accept_task(ws[i], t))

\* a scan that does not advance current_index
RECURSIVE RoundRobinScanStuck(_, _, _, _, _)
RoundRobinScanStuck(ws, t, active, idx, k) ==
  IF k = 0 THEN <<None, idx>>
  ELSE LET w == active[(idx % Len(active)) + 1]
       IN  IF can_accept_task(ws[w], t) THEN <<w, idx>>
           ELSE RoundRobinScanStuck(ws, t, active, idx + 1, k - 1)

\* the for loop of RoundRobinAllocation.allocate: <<worker or None, current_index>>
RECURSIVE RoundRobinScan(_, _, _, _, _)
RoundRobinScan(ws, t, active, idx, k) ==
  IF k = 0 THEN <<None, idx>>
  ELSE LET w == active[(idx % Len(active)) + 1]
       IN  IF can_accept_task(ws[w], t) THEN <<w, idx + 1>>
           ELSE RoundRobinScan(ws, t, active, idx + 1, k - 1)

RoundRobinAllocate(ws, t, idx) ==
  LET active == SelectSeq([i \in DOMAIN ws |-> i],
                          LAMBDA i : ws[i].is_active /\ can_accept_task(ws[i], t))
  IN  IF active = <<>> THEN <<None, idx>>
      ELSE RoundRobinScan(ws, t, active, idx, Len(active))

\* a least-loaded choice that measures the load by the memory in use
LeastLoadedByMemory(ws, t) ==
  LET available == Eligible(ws, t)
      sorted == Items(StableSort([k \in DOMAIN available |->
                   <<ws[available[k]].gpu_memory - ws[available[k]].available_memory,
                     available[k]>>]))
  IN  IF available = <<>> THEN None ELSE sorted[1]

LeastLoadedAllocate(ws, t) ==
  LET available == Eligible(ws, t)
      sorted == Items(StableSort([k \in DOMAIN available |->
                   <<Len(ws[available[k]].allocated_tasks), available[k]>>]))
  IN  IF available = <<>> THEN None ELSE sorted[1]

\* a choice of the worker with the most available memory
BestFitLargest(ws, t) ==
  LET available == Eligible(ws, t)
      sorted == Items(StableSort([k \in DOMAIN available |->
                   <<0 - ws[available[k]].available_memory, available[k]>>]))
  IN  IF available = <<>> THEN None ELSE sorted[1]

BestFitAllocate(ws, t) ==
  LET available == Eligible(ws, t)
      sorted == Items(StableSort([k \in DOMAIN available |->
                   <<ws[available[k]].available_memory, available[k]>>]))
      fits == SelectSeq(sorted,
                LAMBDA i : ws[i].available_memory >= t.gpu_memory_required)
  IN  IF available = <<>> THEN None
      ELSE IF fits = <<>> THEN None ELSE fits[1]

\* strategy.allocate(task, workers): <<worker or None, current_index afterwards>>
StrategyAllocate(s, ws, t, idx) ==
  CASE s = "RoundRobin" -> RoundRobinAllocate(ws, t, idx)
    [] s = "LeastLoaded" -> <<LeastLoadedAllocate(ws, t), idx>>
    [] s = "BestFit" -> <<BestFitAllocate(ws, t), idx>>

\* -------------------------------------------------------------- TaskQueue
\* an enqueue that puts the new task in front of its priority class
EnqueueBeforeEquals(q, ti, ts) ==
  LET put == <<ti>> \o q
  IN  Items(StableSort([k \in DOMAIN put |-> <<0 - ts[put[k]].priority, put[k]>>]))

\* enqueue: append, then sort(key=priority, reverse=True), which is stable
Enqueue(q, ti, ts) ==
  LET appended == Append(q, ti)
  IN  Items(StableSort([k \in DOMAIN appended |->
                          <<0 - ts[appended[k]].priority, appended[k]>>]))

\* a dequeue that pops the last task
DequeueLast(q) ==
  IF q # <<>> THEN <<q[Len(q)], SubSeq(q, 1, Len(q) - 1)>> ELSE <<None, q>>

\* a dequeue that leaves the task in the queue
DequeuePeek(q) == IF q # <<>> THEN <<Head(q), q>> ELSE <<None, q>>

\* dequeue: <<task or None, queue afterwards>>
Dequeue(q) == IF q # <<>> THEN <<Head(q), Tail(q)>> ELSE <<None, q>>

\* ------------------------------------------------- TaskAllocationSimulator
\* A float is kept exactly, as <<numerator, denominator>> with a positive
\* denominator: the quotients the program forms are quotients of small integers.
Frac(a, b) == <<a, b>>
Minus(x, y) == <<x[1] * y[2] - y[1] * x[2], x[2] * y[2]>>
Less(x, y) == x[1] * y[2] < y[1] * x[2]
Same(x, y) == x[1] * y[2] = y[1] * x[2]

\* sorted(values) / list.sort() of numbers
SortedValues(values) ==
  Items(StableSort([k \in DOMAIN values |-> <<values[k], values[k]>>]))

\* a Gini computation that does not sort the values
GiniUnsorted(values) ==
  IF values = <<>> \/ SumSeq(values) = 0 THEN Frac(0, 1)
  ELSE LET n == Len(values)
           cumsum == SumSeq([k \in 1..n |-> (n - (k - 1)) * values[k]])
       IN  Minus(Frac(2 * cumsum, n * SumSeq(values)), Frac(n + 1, n))

\* a Gini computation whose weights are one too small, n - 1 down to 0
GiniShiftedWeights(values) ==
  IF values = <<>> \/ SumSeq(values) = 0 THEN Frac(0, 1)
  ELSE LET sorted_values == SortedValues(values)
           n == Len(sorted_values)
           cumsum == SumSeq([k \in 1..n |-> (n - k) * sorted_values[k]])
       IN  Minus(Frac(2 * cumsum, n * SumSeq(sorted_values)), Frac(n + 1, n))

\* _calculate_gini_coefficient: enumerate counts i from 0, so the element at
\* position k of the sequence has weight n - (k - 1)
calculate_gini_coefficient(values) ==
  IF values = <<>> \/ SumSeq(values) = 0 THEN Frac(0, 1)
  ELSE LET sorted_values == SortedValues(values)
           n == Len(sorted_values)
           cumsum == SumSeq([k \in 1..n |-> (n - (k - 1)) * sorted_values[k]])
       IN  Minus(Frac(2 * cumsum, n * SumSeq(sorted_values)), Frac(n + 1, n))

\* a percentile by nearest rank: the element at index ceil(n * p / 100) - 1
PercentileNearestRank(data, p) ==
  IF data = <<>> THEN 0
  ELSE LET index == (Len(data) * p + 99) \div 100 - 1
       IN  data[(IF index < Len(data) - 1 THEN index ELSE Len(data) - 1) + 1]

\* _percentile: int(len(data) * percentile / 100), clamped to the last index
percentile(data, p) ==
  IF data = <<>> THEN 0
  ELSE LET index == (Len(data) * p) \div 100
       IN  data[(IF index < Len(data) - 1 THEN index ELSE Len(data) - 1) + 1]

\* _check_acceptance_criteria; total_tasks is the module's global.  A latency
\* is a whole number of clock units, a unit being no shorter than a second, so
\* that only a latency of 0 units is below 0.5 s
check_acceptance_criteria(fairness_score, latencies, q) ==
  /\ Less(fairness_score, Frac(2, 10))
  /\ IF latencies # <<>> THEN Less(Frac(percentile(latencies, 95), 1), Frac(5, 10))
                          ELSE FALSE
  /\ Less(Frac(Len(q), 1), Frac(GlobalTotalTasks * 5, 100))

NoReport ==
  [test_name |-> "", total_workers |-> 0, total_tasks |-> 0, tasks_allocated |-> 0,
   tasks_pending |-> 0,
   avg_allocation_latency |-> Frac(0, 1), p50_allocation_latency |-> 0,
   p95_allocation_latency |-> 0, p99_allocation_latency |-> 0,
   allocation_fairness_score |-> Frac(0, 1), worker_distribution |-> <<>>,
   test_passed |-> FALSE]

\* _calculate_metrics: sorts the latencies and builds the report
SortedLatencies(ls) == SortedValues(ls)

\* the report, from the strategy's class, the workers, the queue,
\* completed_tasks, the total_tasks argument and the latencies as sorted
CalculateMetrics(s, ws, q, done, total, latencies) ==
  LET worker_task_counts == [i \in DOMAIN ws |-> ws[i].completed_tasks]
      fairness_score == calculate_gini_coefficient(worker_task_counts)
  IN  [test_name |-> s,
       total_workers |-> Len(ws),
       total_tasks |-> total,
       tasks_allocated |->
         Len(done) + SumSeq([i \in DOMAIN ws |-> Len(ws[i].allocated_tasks)]),
       tasks_pending |-> Len(q),
       avg_allocation_latency |->
         IF latencies # <<>> THEN Frac(SumSeq(latencies), Len(latencies)) ELSE Frac(0, 1),
       p50_allocation_latency |-> percentile(latencies, 50),
       p95_allocation_latency |-> percentile(latencies, 95),
       p99_allocation_latency |-> percentile(latencies, 99),
       allocation_fairness_score |-> fairness_score,
       worker_distribution |-> worker_task_counts,
       test_passed |-> check_acceptance_criteria(fairness_score, latencies, q)]

\* no call of _calculate_gini_coefficient made yet
NoCall == [made |-> FALSE, values |-> <<>>, result |-> Frac(0, 1)]

\* TaskAllocationSimulator(num_workers, strategy), before run_simulation is called
Init ==
  /\ \E n \in 0..MaxWorkers : workers = [i \in 1..n |-> NewWorker(GpuMemory)]
  /\ strategy \in Strategies
  /\ num_tasks \in 0..MaxTasks
  /\ tasks = <<>>
  /\ queue = <<>>
  /\ completed_tasks = <<>>
  /\ allocation_latencies = <<>>
  /\ current_index = 0
  /\ clock = 1
  /\ running = "main"
  /\ ready = <<>>
  /\ main_pc = "start"
  /\ gen_pc = "none"
  /\ gen_i = 0
  /\ alloc_pc = "none"
  /\ alloc_task = None
  /\ alloc_worker = None
  /\ proc_pc = "none"
  /\ proc_i = 1
  /\ report = NoReport
  /\ duration \in Durations
  /\ gini_call = NoCall
  /\ always_eligible = {}
  /\ stamp = <<>>
  /\ reference = <<None, 0, 0>>
  /\ dequeued = <<>>

shared == <<workers, tasks, queue, completed_tasks, allocation_latencies, current_index>>
inputs == <<strategy, num_tasks, duration, gini_call, always_eligible, stamp, reference,
            dequeued>>
gen_vars == <<gen_pc, gen_i>>
alloc_vars == <<alloc_pc, alloc_task, alloc_worker>>
proc_vars == <<proc_pc, proc_i>>

\* run_simulation up to `await generator_task`: the three tasks are created in
\* this order and first run in this order
MainStart ==
  /\ running = "main" /\ main_pc = "start"
  /\ alloc_pc' = "new" /\ proc_pc' = "new" /\ gen_pc' = "new"
  /\ ready' = <<"alloc", "proc", "gen">>
  /\ main_pc' = "await_generator"
  /\ running' = "loop"
  /\ UNCHANGED <<shared, inputs, clock, gen_i, alloc_task, alloc_worker, proc_i, report>>

\* the event loop runs the next ready coroutine
Dispatch ==
  /\ running = "loop" /\ ready # <<>>
  /\ running' = Head(ready)
  /\ ready' = Tail(ready)
  /\ UNCHANGED <<shared, inputs, clock, main_pc, gen_vars, alloc_vars, proc_vars, report>>

\* coroutine c gets control: it has it already, or the event loop resumes it
\* because its asyncio.sleep has ended
Resumes(c, pc) ==
  \/ running = c
  \/ running = "loop" /\ ready = <<>> /\ pc = "sleep"

\* time.time() when generate_tasks gets control: its sleep of one inter-arrival
\* period has advanced the clock by one unit (read in whole units up to MaxClock)
ClockAtGenerator ==
  IF gen_pc = "sleep" /\ clock < MaxClock THEN clock + 1 ELSE clock

\* generate_tasks with duration 0: num_tasks / duration raises
\* ZeroDivisionError; run_simulation, which awaits the task, becomes ready
GenerateRaise ==
  /\ running = "gen" /\ gen_pc = "new" /\ duration = 0
  /\ gen_pc' = "raised"
  /\ ready' = Append(ready, "main")
  /\ running' = "loop"
  /\ UNCHANGED <<shared, inputs, clock, main_pc, gen_i, alloc_vars, proc_vars, report>>

\* a for loop over range(num_tasks + 1)
GenerateOneMore ==
  /\ Resumes("gen", gen_pc) /\ gen_i <= num_tasks /\ gen_pc # "done" /\ duration # 0
  /\ clock' = ClockAtGenerator
  /\ \E p \in Priorities, m \in MemoryChoices :
       /\ tasks' = Append(tasks, NewTask(p, m, clock'))
       /\ queue' = Enqueue(queue, Len(tasks) + 1, tasks')
  /\ gen_i' = gen_i + 1
  /\ gen_pc' = "sleep"
  /\ running' = "loop"
  /\ UNCHANGED <<workers, completed_tasks, allocation_latencies, current_index, inputs,
                 ready, main_pc, alloc_vars, proc_vars, report>>

\* generate_tasks: one iteration of the for loop, up to its sleep
GenerateTask ==
  /\ Resumes("gen", gen_pc) /\ gen_i < num_tasks /\ duration # 0
  /\ clock' = ClockAtGenerator
  /\ \E p \in Priorities, m \in MemoryChoices :
       /\ tasks' = Append(tasks, NewTask(p, m, clock'))
       /\ queue' = Enqueue(queue, Len(tasks) + 1, tasks')
  /\ gen_i' = gen_i + 1
  /\ gen_pc' = "sleep"
  /\ running' = "loop"
  /\ UNCHANGED <<workers, completed_tasks, allocation_latencies, current_index, inputs,
                 ready, main_pc, alloc_vars, proc_vars, report>>

\* generate_tasks returns: run_simulation, which awaits it, becomes ready
GenerateDone ==
  /\ Resumes("gen", gen_pc) /\ gen_i >= num_tasks /\ duration # 0
  /\ clock' = ClockAtGenerator
  /\ gen_pc' = "done"
  /\ ready' = Append(ready, "main")
  /\ running' = "loop"
  /\ UNCHANGED <<shared, inputs, main_pc, gen_i, alloc_vars, proc_vars, report>>

\* allocate_tasks: task = self.task_queue.dequeue(), and the sleep if there is none
AllocDequeue ==
  /\ Resumes("alloc", alloc_pc)
  /\ alloc_pc \in {"new", "sleep", "top"}
  /\ LET d == Dequeue(queue)
     IN  /\ alloc_task' = d[1]
         /\ queue' = d[2]
         /\ IF d[1] = None
            THEN alloc_pc' = "sleep" /\ running' = "loop"
            ELSE alloc_pc' = "dequeued" /\ running' = "alloc"
  /\ UNCHANGED <<workers, tasks, completed_tasks, allocation_latencies, current_index,
                 inputs, clock, ready, main_pc, gen_vars, alloc_worker, proc_vars, report>>

\* worker = self.strategy.allocate(task, self.workers)
AllocSelect ==
  /\ running = "alloc" /\ alloc_pc = "dequeued"
  /\ LET r == StrategyAllocate(strategy, workers, tasks[alloc_task], current_index)
     IN  /\ alloc_worker' = r[1]
         /\ current_index' = r[2]
  /\ alloc_pc' = "selected"
  /\ UNCHANGED <<workers, tasks, queue, completed_tasks, allocation_latencies, inputs,
                 clock, running, ready, main_pc, gen_vars, alloc_task, proc_vars, report>>

\* if worker: success = worker.allocate_task(task); on success the latency is
\* recorded and the loop goes on without a sleep, else re-queue and sleep
AllocAllocate ==
  /\ running = "alloc" /\ alloc_pc = "selected" /\ alloc_worker # None
  /\ LET success == can_accept_task(workers[alloc_worker], tasks[alloc_task])
     IN  /\ workers' = [workers EXCEPT ![alloc_worker] =
                          WorkerAllocate(@, alloc_task, tasks[alloc_task])]
         /\ IF success
            THEN /\ tasks' = [tasks EXCEPT ![alloc_task] =
                                allocate_to_worker(@, alloc_worker, clock)]
                 /\ allocation_latencies' =
                      Append(allocation_latencies,
                             get_allocation_latency(tasks'[alloc_task]))
                 /\ alloc_pc' = "top"
                 /\ UNCHANGED <<queue, running>>
            ELSE /\ queue' = Enqueue(queue, alloc_task, tasks)
                 /\ alloc_pc' = "sleep"
                 /\ running' = "loop"
                 /\ UNCHANGED <<tasks, allocation_latencies>>
  /\ alloc_task' = None
  /\ alloc_worker' = None
  /\ UNCHANGED <<completed_tasks, current_index, inputs, clock, ready,
                 main_pc, gen_vars, proc_vars, report>>

\* no suitable worker: sleep, without the re-queue
AllocRequeueDrops ==
  /\ running = "alloc" /\ alloc_pc = "selected" /\ alloc_worker = None
  /\ alloc_pc' = "sleep"
  /\ alloc_task' = None
  /\ running' = "loop"
  /\ UNCHANGED <<shared, inputs, clock, ready, main_pc, gen_vars, alloc_worker,
                 proc_vars, report>>

\* no suitable worker: the sleep comes first, the re-queue would follow it
AllocRequeueAfterSleep ==
  /\ running = "alloc" /\ alloc_pc = "selected" /\ alloc_worker = None
  /\ alloc_pc' = "sleep"
  /\ running' = "loop"
  /\ UNCHANGED <<shared, inputs, clock, ready, main_pc, gen_vars, alloc_task,
                 alloc_worker, proc_vars, report>>

\* no suitable worker: re-queue and sleep
AllocRequeue ==
  /\ running = "alloc" /\ alloc_pc = "selected" /\ alloc_worker = None
  /\ queue' = Enqueue(queue, alloc_task, tasks)
  /\ alloc_pc' = "sleep"
  /\ alloc_task' = None
  /\ running' = "loop"
  /\ UNCHANGED <<workers, tasks, completed_tasks, allocation_latencies, current_index,
                 inputs, clock, ready, main_pc, gen_vars, alloc_worker, proc_vars, report>>

\* process_tasks, one worker of the for loop: random.random() >= 0.1, or the
\* worker holds nothing
ProcessSkip ==
  /\ Resumes("proc", proc_pc) /\ proc_i <= Len(workers)
  /\ proc_i' = proc_i + 1
  /\ proc_pc' = "for"
  /\ running' = "proc"
  /\ UNCHANGED <<shared, inputs, clock, ready, main_pc, gen_vars, alloc_vars, report>>

\* a completion that is not appended to self.completed_tasks
ProcessCompleteUnlisted ==
  /\ Resumes("proc", proc_pc) /\ proc_i <= Len(workers)
  /\ workers[proc_i].allocated_tasks # <<>>
  /\ \E ti \in Range(workers[proc_i].allocated_tasks) :
       workers' = [workers EXCEPT ![proc_i] = WorkerComplete(@, ti, tasks[ti])]
  /\ proc_i' = proc_i + 1
  /\ proc_pc' = "for"
  /\ running' = "proc"
  /\ UNCHANGED <<tasks, queue, completed_tasks, allocation_latencies, current_index,
                 inputs, clock, ready, main_pc, gen_vars, alloc_vars, report>>

\* process_tasks, one worker of the for loop: random.random() < 0.1, one task
\* chosen at random completes
ProcessComplete ==
  /\ Resumes("proc", proc_pc) /\ proc_i <= Len(workers)
  /\ workers[proc_i].allocated_tasks # <<>>
  /\ \E ti \in Range(workers[proc_i].allocated_tasks) :
       /\ workers' = [workers EXCEPT ![proc_i] = WorkerComplete(@, ti, tasks[ti])]
       /\ completed_tasks' = Append(completed_tasks, ti)
  /\ proc_i' = proc_i + 1
  /\ proc_pc' = "for"
  /\ running' = "proc"
  /\ UNCHANGED <<tasks, queue, allocation_latencies, current_index, inputs, clock,
                 ready, main_pc, gen_vars, alloc_vars, report>>

\* process_tasks: await asyncio.sleep(0.5) after the for loop
ProcessSleep ==
  /\ Resumes("proc", proc_pc) /\ proc_i > Len(workers)
  /\ proc_i' = 1
  /\ proc_pc' = "sleep"
  /\ running' = "loop"
  /\ UNCHANGED <<shared, inputs, clock, ready, main_pc, gen_vars, alloc_vars, report>>

\* run_simulation when the generator task has raised: `await generator_task`
\* raises the exception in run_simulation, which returns no report; the two
\* loops are cancelled when the event loop is shut down
MainRaise ==
  /\ running = "main" /\ main_pc = "await_generator" /\ gen_pc = "raised"
  /\ main_pc' = "raised"
  /\ alloc_pc' = "cancelled"
  /\ proc_pc' = "cancelled"
  /\ UNCHANGED <<shared, inputs, clock, running, ready, gen_vars, alloc_task,
                 alloc_worker, proc_i, report>>

\* run_simulation after the generator is done: await asyncio.sleep(5)
MainGrace ==
  /\ running = "main" /\ main_pc = "await_generator" /\ gen_pc = "done"
  /\ main_pc' = "sleep"
  /\ running' = "loop"
  /\ UNCHANGED <<shared, inputs, clock, ready, gen_vars, alloc_vars, proc_vars, report>>

\* run_simulation after the grace sleep: cancel both loops, compute the metrics
MainFinish ==
  /\ Resumes("main", main_pc) /\ main_pc = "sleep"
  /\ alloc_pc' = "cancelled"
  /\ proc_pc' = "cancelled"
  /\ allocation_latencies' = SortedLatencies(allocation_latencies)
  /\ report' = CalculateMetrics(strategy, workers, queue, completed_tasks, num_tasks,
                               allocation_latencies')
  /\ main_pc' = "done"
  /\ running' = "main"
  /\ UNCHANGED <<workers, tasks, queue, completed_tasks, current_index, inputs, clock,
                 ready, gen_vars, alloc_task, alloc_worker, proc_i>>

Next ==
  \/ MainStart \/ Dispatch
  \/ GenerateRaise \/ GenerateTask \/ GenerateDone
  \/ AllocDequeue \/ AllocSelect \/ AllocAllocate \/ AllocRequeue
  \/ ProcessSkip \/ ProcessComplete \/ ProcessSleep
  \/ MainRaise \/ MainGrace \/ MainFinish

Spec == Init /\ [][Next]_vars

\* --------------------------------------------------------- successive runs
\* a further call of run_simulation, with the same duration, on the same
\* simulator object after a run has returned: the method creates three new
\* coroutines and resets nothing, so the workers, the queue, completed_tasks,
\* the latencies and the strategy's cursor are those the run before left
RunAgain ==
  /\ main_pc = "done"
  /\ \E n \in 0..MaxRerunTasks : Len(tasks) + n <= MaxRerunTasks /\ num_tasks' = n
  /\ main_pc' = "start"
  /\ running' = "main"
  /\ ready' = <<>>
  /\ gen_pc' = "none" /\ gen_i' = 0
  /\ alloc_pc' = "none" /\ alloc_task' = None /\ alloc_worker' = None
  /\ proc_pc' = "none" /\ proc_i' = 1
  /\ UNCHANGED <<shared, strategy, duration, gini_call, always_eligible, stamp,
                 reference, dequeued, clock, report>>

NextRerun == Next \/ RunAgain

\* a new simulator, before the first of its runs
InitRerun == Init /\ num_tasks <= MaxRerunTasks

SpecRerun == InitRerun /\ [][NextRerun]_vars

\* ------------------------------------------------------ the allocator alone
\* allocate_tasks followed step by step, the other two loops reduced to what
\* they do to the shared state while the allocator is suspended in a sleep:
\* generate_tasks creates and enqueues a task, process_tasks completes a task
\* that a worker holds
InitAllocator ==
  /\ \E n \in 1..MaxAllocWorkers : workers = [i \in 1..n |-> NewWorker(GpuMemory)]
  /\ strategy \in Strategies
  /\ current_index = 0
  /\ tasks = <<>>
  /\ queue = <<>>
  /\ completed_tasks = <<>>
  /\ allocation_latencies = <<>>
  /\ num_tasks = 0
  /\ clock = 1
  /\ running = "loop"
  /\ ready = <<>>
  /\ main_pc = "await_generator"
  /\ gen_pc = "sleep"
  /\ gen_i = 0
  /\ alloc_pc = "sleep"
  /\ alloc_task = None
  /\ alloc_worker = None
  /\ proc_pc = "sleep"
  /\ proc_i = 1
  /\ report = NoReport
  /\ duration = 60
  /\ gini_call = NoCall
  /\ always_eligible = {}
  /\ stamp = <<>>
  /\ reference = <<None, 0, 0>>
  /\ dequeued = <<>>

\* generate_tasks, one iteration of its for loop, with a task of either size
GeneratorTurn ==
  /\ running = "loop" /\ Len(tasks) < MaxAllocTasks
  /\ \E p \in Priorities, m \in SizedChoices :
       /\ tasks' = Append(tasks, NewTask(p, m, clock))
       /\ queue' = Enqueue(queue, Len(tasks) + 1, tasks')
  /\ UNCHANGED <<workers, completed_tasks, allocation_latencies, current_index, inputs,
                 clock, running, ready, main_pc, gen_vars, alloc_vars, proc_vars, report>>

\* process_tasks, one worker of its for loop at which a task completes
ProcessorTurn ==
  /\ running = "loop"
  /\ \E i \in DOMAIN workers :
       \E ti \in Range(workers[i].allocated_tasks) :
         /\ workers' = [workers EXCEPT ![i] = WorkerComplete(@, ti, tasks[ti])]
         /\ completed_tasks' = Append(completed_tasks, ti)
  /\ UNCHANGED <<tasks, queue, allocation_latencies, current_index, inputs, clock,
                 running, ready, main_pc, gen_vars, alloc_vars, proc_vars, report>>

NextAllocator ==
  \/ GeneratorTurn \/ ProcessorTurn
  \/ AllocDequeue \/ AllocSelect \/ AllocAllocate \/ AllocRequeue

SpecAllocator == InitAllocator /\ [][NextAllocator]_vars

\* ------------------------------------------------------- inactive workers
\* a caller sets worker.is_active = False on a worker of the simulator before
\* it calls run_simulation; nothing in a run sets the attribute
Deactivate ==
  /\ main_pc = "start"
  /\ \E i \in DOMAIN workers :
       /\ workers[i].is_active
       /\ workers' = [workers EXCEPT ![i].is_active = FALSE]
  /\ UNCHANGED <<tasks, queue, completed_tasks, allocation_latencies, current_index,
                 inputs, clock, running, ready, main_pc, gen_vars, alloc_vars,
                 proc_vars, report>>

NextActivity == Next \/ Deactivate

SpecActivity == Init /\ [][NextActivity]_vars

\* code outside the three loops sets worker.is_active = False on a worker during
\* a run, while every coroutine of the run is suspended
DeactivateAtYield ==
  /\ running = "loop"
  /\ \E i \in DOMAIN workers :
       /\ workers[i].is_active
       /\ workers' = [workers EXCEPT ![i].is_active = FALSE]
  /\ UNCHANGED <<tasks, queue, completed_tasks, allocation_latencies, current_index,
                 inputs, clock, running, ready, main_pc, gen_vars, alloc_vars,
                 proc_vars, report>>

NextDrain == Next \/ DeactivateAtYield

SpecDrain == Init /\ [][NextDrain]_vars

\* --------------------------------------------------- loops never cancelled
\* a run of duration 60 whose grace sleep has not ended: run_simulation stays in
\* `await asyncio.sleep(5)` and the two loops go on
NextUncancelled ==
  \/ Deactivate \/ MainStart \/ Dispatch
  \/ GenerateTask \/ GenerateDone
  \/ AllocDequeue \/ AllocSelect \/ AllocAllocate \/ AllocRequeue
  \/ ProcessSkip \/ ProcessComplete \/ ProcessSleep
  \/ MainGrace

InitUncancelled == Init /\ duration = 60 /\ Len(workers) <= MaxLiveWorkers

\* the steps of each coroutine
GeneratorSteps == GenerateTask \/ GenerateDone
AllocatorSteps == AllocDequeue \/ AllocSelect \/ AllocAllocate \/ AllocRequeue
ProcessorSteps == ProcessSkip \/ ProcessComplete \/ ProcessSleep

\* process_tasks completes task ti
CompletesTask(ti) == ProcessComplete /\ completed_tasks' = Append(completed_tasks, ti)

\* The event loop runs every ready coroutine, and every coroutine whose
\* asyncio.sleep has ended, however often other coroutines run in between; a
\* task a worker holds is chosen by random.random() < 0.1 and random.choice
\* at one of the passes of process_tasks
SpecUncancelled ==
  /\ InitUncancelled /\ [][NextUncancelled]_vars
  /\ WF_vars(MainStart \/ MainGrace)
  /\ WF_vars(Dispatch)
  /\ SF_vars(GeneratorSteps)
  /\ SF_vars(AllocatorSteps)
  /\ SF_vars(ProcessorSteps)
  /\ \A ti \in 1..MaxTasks : SF_vars(CompletesTask(ti))

\* ------------------------------------------------------------ worker pool
\* History kept beside a RoundRobinAllocation: the choice a rotation makes whose
\* cursor c is a position in the full worker list.  It scans the list cyclically
\* from c, returns the first worker that can accept the task and leaves the
\* cursor just past the workers it inspected: <<worker or None, cursor>>.  The
\* variable reference holds that pair and the current_index the strategy object
\* had before its first call.
RECURSIVE FullListScan(_, _, _, _)
FullListScan(ws, t, c, k) ==
  IF k = 0 THEN <<None, c>>
  ELSE IF can_accept_task(ws[c + 1], t) THEN <<c + 1, (c + 1) % Len(ws)>>
       ELSE FullListScan(ws, t, (c + 1) % Len(ws), k - 1)

\* A test of the Worker and strategy classes: it builds a pool of workers and a
\* strategy, then calls strategy.allocate, Worker.allocate_task and
\* Worker.complete_task with tasks it creates.
sim_only == <<queue, completed_tasks, allocation_latencies, num_tasks, clock, running,
              ready, main_pc, gen_pc, gen_i, proc_pc, proc_i, report, stamp, duration,
              gini_call, dequeued>>

\* the test's pool of n workers of one capacity, some of them inactive, and its
\* strategy object
PoolOf(n, strategies, cursors) ==
  /\ \E cap \in PoolCapacities, act \in [1..n -> BOOLEAN] :
       workers = [i \in 1..n |-> [NewWorker(cap) EXCEPT !.is_active = act[i]]]
  /\ strategy \in strategies
  /\ current_index \in cursors
  /\ tasks = <<>>
  /\ queue = <<>>
  /\ completed_tasks = <<>>
  /\ allocation_latencies = <<>>
  /\ num_tasks = 0
  /\ clock = 1
  /\ running = "test"
  /\ ready = <<>>
  /\ main_pc = "none"
  /\ gen_pc = "none"
  /\ gen_i = 0
  /\ alloc_pc = "none"
  /\ alloc_task = None
  /\ alloc_worker = None
  /\ proc_pc = "none"
  /\ proc_i = 1
  /\ report = NoReport
  /\ duration = 0
  /\ gini_call = NoCall
  /\ always_eligible = {i \in 1..n : TRUE}
  /\ stamp = <<>>
  /\ reference = <<None, current_index % n, current_index>>
  /\ dequeued = <<>>

InitPool == \E n \in 1..MaxPool : PoolOf(n, Strategies, PoolCursors)

\* a call in which the strategy sorts the caller's list of workers by load
\* instead of its own filtered copy
PoolSelectSortsCaller ==
  /\ running = "test" /\ alloc_pc = "none"
  /\ Len(tasks) < MaxPoolTasks
  /\ \E m \in PoolSizes :
       LET t == NewTask(0, m, clock)
           r == StrategyAllocate(strategy, workers, t, current_index)
           order == Items(StableSort([k \in DOMAIN workers |->
                      <<Len(workers[k].allocated_tasks), k>>]))
       IN  /\ tasks' = Append(tasks, t)
           /\ alloc_task' = Len(tasks) + 1
           /\ alloc_worker' = r[1]
           /\ current_index' = r[2]
           /\ always_eligible' = always_eligible \cap Range(Eligible(workers, t))
           /\ reference' = IF strategy = "RoundRobin"
                           THEN FullListScan(workers, t, reference[2], Len(workers))
                                \o <<reference[3]>>
                           ELSE reference
           /\ workers' = [k \in DOMAIN workers |-> workers[order[k]]]
  /\ alloc_pc' = "selected"
  /\ UNCHANGED <<strategy, sim_only>>

\* task = Task(...); worker = strategy.allocate(task, workers)
PoolSelect ==
  /\ running = "test" /\ alloc_pc = "none"
  /\ Len(tasks) < MaxPoolTasks
  /\ \E m \in PoolSizes :
       LET t == NewTask(0, m, clock)
           r == StrategyAllocate(strategy, workers, t, current_index)
       IN  /\ tasks' = Append(tasks, t)
           /\ alloc_task' = Len(tasks) + 1
           /\ alloc_worker' = r[1]
           /\ current_index' = r[2]
           /\ always_eligible' = always_eligible \cap Range(Eligible(workers, t))
           /\ reference' = IF strategy = "RoundRobin"
                           THEN FullListScan(workers, t, reference[2], Len(workers))
                                \o <<reference[3]>>
                           ELSE reference
  /\ alloc_pc' = "selected"
  /\ UNCHANGED <<workers, strategy, sim_only>>

\* if worker: worker.allocate_task(task)
PoolPlace ==
  /\ running = "test" /\ alloc_pc = "selected"
  /\ IF alloc_worker # None
     THEN /\ workers' = [workers EXCEPT ![alloc_worker] =
                           WorkerAllocate(@, alloc_task, tasks[alloc_task])]
          /\ tasks' = IF can_accept_task(workers[alloc_worker], tasks[alloc_task])
                      THEN [tasks EXCEPT ![alloc_task] =
                              allocate_to_worker(@, alloc_worker, clock)]
                      ELSE tasks
     ELSE UNCHANGED <<workers, tasks>>
  /\ alloc_pc' = "none"
  /\ alloc_task' = None
  /\ alloc_worker' = None
  /\ UNCHANGED <<strategy, current_index, always_eligible, reference, sim_only>>

\* task = Task(...); workers[w].allocate_task(task), for any worker
PoolAllocateTask ==
  /\ running = "test" /\ alloc_pc = "none"
  /\ Len(tasks) < MaxPoolTasks
  /\ \E w \in DOMAIN workers, m \in PoolSizes :
       LET t == NewTask(0, m, clock)
       IN  /\ workers' = [workers EXCEPT ![w] = WorkerAllocate(@, Len(tasks) + 1, t)]
           /\ tasks' = Append(tasks, IF can_accept_task(workers[w], t)
                                     THEN allocate_to_worker(t, w, clock) ELSE t)
  /\ UNCHANGED <<strategy, current_index, alloc_pc, alloc_task, alloc_worker,
                 always_eligible, reference, sim_only>>

\* workers[w].complete_task(task), for any worker and any task
PoolCompleteTask ==
  /\ running = "test" /\ alloc_pc = "none"
  /\ \E w \in DOMAIN workers, ti \in DOMAIN tasks :
       workers' = [workers EXCEPT ![w] = WorkerComplete(@, ti, tasks[ti])]
  /\ UNCHANGED <<tasks, strategy, current_index, alloc_pc, alloc_task, alloc_worker,
                 always_eligible, reference, sim_only>>

\* workers[w].complete_task(task), for a task the worker holds
PoolComplete ==
  /\ running = "test" /\ alloc_pc = "none"
  /\ \E w \in DOMAIN workers :
       \E ti \in Range(workers[w].allocated_tasks) :
         workers' = [workers EXCEPT ![w] = WorkerComplete(@, ti, tasks[ti])]
  /\ UNCHANGED <<tasks, strategy, current_index, alloc_pc, alloc_task, alloc_worker,
                 always_eligible, reference, sim_only>>

\* a test that allocates through the strategy
NextPool == PoolSelect \/ PoolPlace \/ PoolComplete

SpecPool == InitPool /\ [][NextPool]_vars

\* a test that calls the workers directly
NextWorkers == PoolAllocateTask \/ PoolCompleteTask

\* the strategy is never called: one fresh RoundRobinAllocation stands for any
InitWorkers == \E n \in 1..MaxWorkers : PoolOf(n, {"RoundRobin"}, {0})

SpecWorkers == InitWorkers /\ [][NextWorkers]_vars

\* workers[w].allocate_task(task), for any worker and any task the test has
\* created before, whether or not a worker holds it
PoolAllocateAgain ==
  /\ running = "test" /\ alloc_pc = "none"
  /\ SumSeq([i \in DOMAIN workers |->
               Len(workers[i].allocated_tasks) + workers[i].completed_tasks])
       < MaxApiAllocations
  /\ \E w \in DOMAIN workers, ti \in DOMAIN tasks :
       /\ workers' = [workers EXCEPT ![w] = WorkerAllocate(@, ti, tasks[ti])]
       /\ tasks' = [tasks EXCEPT ![ti] = IF can_accept_task(workers[w], @)
                                         THEN allocate_to_worker(@, w, clock) ELSE @]
  /\ UNCHANGED <<strategy, current_index, alloc_pc, alloc_task, alloc_worker,
                 always_eligible, reference, sim_only>>

\* a test that calls the workers directly, with any task in any call
NextWorkerApi == PoolAllocateTask \/ PoolAllocateAgain \/ PoolCompleteTask

SpecWorkerApi == InitWorkers /\ [][NextWorkerApi]_vars

\* a test of a strategy: it loads the workers directly, then asks the strategy
NextStrategy == PoolAllocateTask \/ PoolSelect \/ PoolPlace

SpecStrategy == InitPool /\ [][NextStrategy]_vars

\* -------------------------------------------------------- TaskQueue alone
\* A test of the TaskQueue: it enqueues tasks it creates, dequeues, and puts
\* dequeued tasks back, as allocate_tasks does.
queue_only == <<workers, completed_tasks, allocation_latencies, strategy, current_index,
                num_tasks, clock, running, ready, main_pc, gen_pc, gen_i, alloc_pc,
                alloc_worker, proc_pc, proc_i, report, always_eligible, duration,
                gini_call, reference>>

InitQueue ==
  /\ workers = <<>>
  /\ strategy = "RoundRobin"
  /\ current_index = 0
  /\ tasks = <<>>
  /\ queue = <<>>
  /\ completed_tasks = <<>>
  /\ allocation_latencies = <<>>
  /\ num_tasks = 0
  /\ clock = 1
  /\ running = "test"
  /\ ready = <<>>
  /\ main_pc = "none"
  /\ gen_pc = "none"
  /\ gen_i = 0
  /\ alloc_pc = "none"
  /\ alloc_task = None
  /\ alloc_worker = None
  /\ proc_pc = "none"
  /\ proc_i = 1
  /\ report = NoReport
  /\ duration = 0
  /\ gini_call = NoCall
  /\ always_eligible = {}
  /\ stamp = <<>>
  /\ reference = <<None, 0, 0>>
  /\ dequeued = <<>>

\* the number of the next enqueue call
NextStamp ==
  LET used == Range(stamp) \cup {0}
  IN  (CHOOSE m \in used : \A k \in used : k <= m) + 1

\* task = Task(priority=p); queue.enqueue(task)
QueueEnqueue ==
  /\ running = "test" /\ NextStamp <= MaxEnqueues
  /\ \E p \in Priorities :
       /\ tasks' = Append(tasks, NewTask(p, 1024, clock))
       /\ queue' = Enqueue(queue, Len(tasks) + 1, tasks')
  /\ stamp' = Append(stamp, NextStamp)
  /\ UNCHANGED <<alloc_task, dequeued, queue_only>>

\* queue.enqueue(task) of a task that was dequeued before
QueueReenqueue ==
  /\ running = "test" /\ NextStamp <= MaxEnqueues
  /\ \E ti \in DOMAIN tasks \ Range(queue) :
       /\ queue' = Enqueue(queue, ti, tasks)
       /\ stamp' = [stamp EXCEPT ![ti] = NextStamp]
  /\ UNCHANGED <<tasks, alloc_task, dequeued, queue_only>>

\* history entry for a dequeue call that returned task ti: the task, its
\* priority, the number of the enqueue call that put it in, and the number of
\* enqueue calls made before this dequeue
Returned(ti) ==
  [task |-> ti, priority |-> tasks[ti].priority, arrival |-> stamp[ti],
   calls |-> NextStamp - 1]

\* task = queue.dequeue()
QueueDequeue ==
  /\ running = "test"
  /\ alloc_task' = Dequeue(queue)[1]
  /\ queue' = Dequeue(queue)[2]
  /\ dequeued' = IF alloc_task' # None THEN Append(dequeued, Returned(alloc_task'))
                                        ELSE dequeued
  /\ UNCHANGED <<tasks, stamp, queue_only>>

NextQueue == QueueEnqueue \/ QueueReenqueue \/ QueueDequeue

SpecQueue == InitQueue /\ [][NextQueue]_vars

\* ------------------------------------------------ _calculate_metrics alone
\* A test of the report: a simulator that has run nothing but has a latency
\* history, on which _calculate_metrics is called.
InitMetrics ==
  /\ \E n \in 0..MaxWorkers : workers = [i \in 1..n |-> NewWorker(GpuMemory)]
  /\ strategy \in Strategies
  /\ current_index = 0
  /\ tasks = <<>>
  /\ queue = <<>>
  /\ completed_tasks = <<>>
  /\ allocation_latencies \in LatencyHistories
  /\ num_tasks = 0
  /\ clock = 1
  /\ running = "test"
  /\ ready = <<>>
  /\ main_pc = "none"
  /\ gen_pc = "none"
  /\ gen_i = 0
  /\ alloc_pc = "none"
  /\ alloc_task = None
  /\ alloc_worker = None
  /\ proc_pc = "none"
  /\ proc_i = 1
  /\ report = NoReport
  /\ duration = 0
  /\ gini_call = NoCall
  /\ always_eligible = {}
  /\ stamp = <<>>
  /\ reference = <<None, 0, 0>>
  /\ dequeued = <<>>

\* report = simulator._calculate_metrics(start_time, end_time, 0)
MetricsCall ==
  /\ running = "test" /\ report.test_name = ""
  /\ allocation_latencies' = SortedLatencies(allocation_latencies)
  /\ report' = CalculateMetrics(strategy, workers, queue, completed_tasks, num_tasks,
                               allocation_latencies')
  /\ UNCHANGED <<workers, tasks, queue, completed_tasks, strategy, current_index,
                 num_tasks, clock, running, ready, main_pc, gen_pc, gen_i, alloc_pc,
                 alloc_task, alloc_worker, proc_pc, proc_i, duration, gini_call,
                 always_eligible, stamp, reference, dequeued>>

NextMetrics == MetricsCall

SpecMetrics == InitMetrics /\ [][NextMetrics]_vars

\* ---------------------------------------- _calculate_gini_coefficient alone
\* A test of the static method: it calls it with a list of counts.
GiniCall ==
  /\ running = "test" /\ ~gini_call.made
  /\ \E values \in GiniValues :
       gini_call' = [made |-> TRUE, values |-> values,
                     result |-> calculate_gini_coefficient(values)]
  /\ UNCHANGED <<workers, tasks, queue, completed_tasks, allocation_latencies, strategy,
                 current_index, num_tasks, clock, running, ready, main_pc, gen_pc, gen_i,
                 alloc_pc, alloc_task, alloc_worker, proc_pc, proc_i, report, duration,
                 always_eligible, stamp, reference, dequeued>>

NextGini == GiniCall

SpecGini == InitQueue /\ [][NextGini]_vars

\* ================================================================ claims
Occurrences(seq, x) == Cardinality({k \in DOMAIN seq : seq[k] = x})

\* tasks held by all workers together
Held == SumSeq([i \in DOMAIN workers |-> Len(workers[i].allocated_tasks)])

\* the number of containers (queue, workers' allocated_tasks, completed_tasks)
\* entries that are task ti
Copies(ti) ==
  Occurrences(queue, ti) + Occurrences(completed_tasks, ti)
  + SumSeq([i \in DOMAIN workers |-> Occurrences(workers[i].allocated_tasks, ti)])

\* gpu_memory_required of the tasks worker w holds
HeldMemory(w) ==
  SumSeq([k \in DOMAIN w.allocated_tasks |->
            tasks[w.allocated_tasks[k]].gpu_memory_required])

\* every coroutine is suspended, or the run is over
AtYield == running = "loop" \/ main_pc = "done"

\* C1: task conservation.  At every yield point of a run the queue size plus the
\* tasks held by the workers plus the completed tasks is the number of tasks
\* generated so far; once generate_tasks is done that number is num_tasks, and
\* the report has tasks_allocated + tasks_pending = total_tasks.
C1_TaskConservation ==
  /\ AtYield => Len(queue) + Held + Len(completed_tasks) = Len(tasks)
  /\ Len(tasks) = gen_i
  /\ gen_pc = "done" => Len(tasks) = num_tasks
  /\ main_pc = "done" =>
       /\ report.total_tasks = num_tasks
       /\ report.tasks_allocated + report.tasks_pending = report.total_tasks

\* a finished run whose report counts pending, held and completed tasks
C1_Witness ==
  /\ main_pc = "done"
  /\ report.tasks_pending > 0
  /\ Held > 0
  /\ Len(completed_tasks) > 0
  /\ report.total_tasks = MaxTasks

\* C2: task ownership.  Every generated task is in at most one of the queue, a
\* worker's allocated_tasks and completed_tasks, at most once; at a yield point
\* it is in exactly one.
C2_TaskOwnership ==
  \A ti \in DOMAIN tasks :
    /\ Copies(ti) <= 1
    /\ AtYield => Copies(ti) = 1

\* the allocator holds a dequeued task in its local variable only, while other
\* tasks are queued, held and completed
C2_Witness ==
  /\ running = "alloc"
  /\ alloc_task # None
  /\ Copies(alloc_task) = 0
  /\ queue # <<>>
  /\ Held > 0
  /\ completed_tasks # <<>>

\* C3: capacity accounting.  After any sequence of allocate_task and
\* complete_task calls, every worker's available_memory plus the
\* gpu_memory_required of the tasks it holds is its gpu_memory.
C3_CapacityAccounting ==
  \A i \in DOMAIN workers :
    workers[i].available_memory + HeldMemory(workers[i]) = workers[i].gpu_memory

\* a worker holds two tasks of different sizes and has completed one, and some
\* allocate_task call was rejected
C3_Witness ==
  /\ \E i \in DOMAIN workers :
       /\ workers[i].completed_tasks > 0
       /\ \E a, b \in Range(workers[i].allocated_tasks) :
            tasks[a].gpu_memory_required # tasks[b].gpu_memory_required
  /\ \E ti \in DOMAIN tasks : tasks[ti].worker_id = None

\* C4: capacity bounds.  Every worker has 0 <= available_memory <= gpu_memory;
\* one worker of capacity 10 with tasks requiring 4 each never holds more than
\* two, and a third or later task is placed only after a completion.
C4_CapacityBounds ==
  /\ \A i \in DOMAIN workers :
       /\ 0 <= workers[i].available_memory
       /\ workers[i].available_memory <= workers[i].gpu_memory
  /\ ( /\ Len(workers) = 1
       /\ workers[1].gpu_memory = 10
       /\ \A ti \in DOMAIN tasks : tasks[ti].gpu_memory_required = 4 )
     => /\ Len(workers[1].allocated_tasks) <= 2
        /\ \A ti \in DOMAIN tasks :
             (ti >= 3 /\ tasks[ti].worker_id # None) => workers[1].completed_tasks >= 1

\* one worker of capacity 10, three tasks requiring 4: the first was completed,
\* the second and the third are held
C4_Witness ==
  /\ Len(workers) = 1
  /\ workers[1].gpu_memory = 10
  /\ Len(tasks) = 3
  /\ \A ti \in DOMAIN tasks : tasks[ti].gpu_memory_required = 4
  /\ workers[1].allocated_tasks = <<2, 3>>
  /\ workers[1].completed_tasks = 1
  /\ workers[1].available_memory = 2

\* C5: strategy eligibility.  Whatever strategy.allocate returns for a task and
\* a worker list, a returned worker is active and has available_memory >= the
\* task's gpu_memory_required, and None is returned exactly when no worker of
\* the list is both.
C5_StrategyEligibility ==
  alloc_pc = "selected" =>
    LET need == tasks[alloc_task].gpu_memory_required
        fit == {i \in DOMAIN workers :
                  workers[i].is_active /\ workers[i].available_memory >= need}
    IN  /\ alloc_worker # None => alloc_worker \in fit
        /\ alloc_worker = None <=> fit = {}

\* a strategy has returned a worker while another worker with enough memory is
\* inactive and an active one lacks the memory
C5_Witness ==
  /\ alloc_pc = "selected"
  /\ alloc_worker # None
  /\ \E i, j \in DOMAIN workers :
       /\ ~workers[i].is_active
       /\ workers[i].available_memory >= tasks[alloc_task].gpu_memory_required
       /\ workers[j].is_active
       /\ workers[j].available_memory < tasks[alloc_task].gpu_memory_required

\* queue position i comes before position j in priority, then insertion, order
Precedes(a, b) ==
  \/ tasks[a].priority > tasks[b].priority
  \/ tasks[a].priority = tasks[b].priority /\ stamp[a] < stamp[b]

\* C6: queue ordering.  After any sequence of enqueue and dequeue calls the
\* queue is sorted by descending priority, and tasks of equal priority are in
\* the order of their insertion.
C6_QueueOrder ==
  \A i, j \in DOMAIN queue : i < j => Precedes(queue[i], queue[j])

\* three queued tasks, two of one priority of which the one created later stands
\* first because the other was dequeued and put back
C6_Witness ==
  /\ Len(queue) >= 3
  /\ \E i, j \in DOMAIN queue :
       /\ i < j
       /\ tasks[queue[i]].priority = tasks[queue[j]].priority
       /\ queue[i] > queue[j]

\* C7: dequeue.  On a non-empty queue it removes and returns one task, of the
\* highest priority and of that priority the one inserted first, and leaves the
\* rest in order; on an empty queue it returns None and the queue stays empty.
C7_Dequeue ==
  [][QueueDequeue =>
       IF queue = <<>>
       THEN alloc_task' = None /\ queue' = <<>>
       ELSE /\ alloc_task' \in Range(queue)
            /\ \A ti \in Range(queue) \ {alloc_task'} : Precedes(alloc_task', ti)
            /\ queue' = RemoveFirst(queue, alloc_task')
            /\ Len(queue') = Len(queue) - 1]_vars

\* a dequeue has returned a task and left behind one of the same priority and
\* one of a lower priority
C7_Witness ==
  /\ alloc_task # None
  /\ alloc_task \notin Range(queue)
  /\ \E a, b \in Range(queue) :
       /\ tasks[a].priority = tasks[alloc_task].priority
       /\ tasks[b].priority < tasks[alloc_task].priority

\* C8: capacity exhaustion.  When the strategy has returned None for the
\* dequeued task, the allocator's next step puts that task back in the queue and
\* suspends, with no task field, no worker and no latency changed; the strategy
\* call itself changes none of them either.
C8_RequeueOnExhaustion ==
  [][ /\ (running = "alloc" /\ alloc_pc = "dequeued") =>
           /\ tasks' = tasks /\ workers' = workers
           /\ allocation_latencies' = allocation_latencies
           /\ alloc_task' = alloc_task
      /\ (running = "alloc" /\ alloc_pc = "selected" /\ alloc_worker = None) =>
           /\ running' = "loop" /\ alloc_pc' = "sleep"
           /\ Occurrences(queue', alloc_task) = 1
           /\ Len(queue') = Len(queue) + 1
           /\ tasks' = tasks
           /\ tasks[alloc_task].allocated_at = None
           /\ tasks[alloc_task].worker_id = None
           /\ workers' = workers
           /\ allocation_latencies' = allocation_latencies ]_vars

\* the strategy has returned None although there are workers: they are full
C8_Witness ==
  /\ running = "alloc" /\ alloc_pc = "selected" /\ alloc_worker = None
  /\ workers # <<>>
  /\ \A i \in DOMAIN workers : workers[i].available_memory = 0

\* the tasks worker i was given
Got(i) == Cardinality({ti \in DOMAIN tasks : tasks[ti].worker_id = i})

UniformSizes ==
  \A a, b \in DOMAIN tasks : tasks[a].gpu_memory_required = tasks[b].gpu_memory_required

\* C9: RoundRobin even split.  After k*n allocations of equally sized tasks to
\* n workers that were all eligible at every call, with no completion in
\* between, every worker holds exactly k tasks, whatever current_index was at
\* the start.
C9_RoundRobinEvenSplit ==
  ( /\ strategy = "RoundRobin"
    /\ alloc_pc = "none"
    /\ always_eligible = DOMAIN workers
    /\ UniformSizes
    /\ \A i \in DOMAIN workers : workers[i].completed_tasks = 0
    /\ Len(tasks) % Len(workers) = 0 )
  => \A i \in DOMAIN workers :
       Len(workers[i].allocated_tasks) = Len(tasks) \div Len(workers)

\* two workers, four allocations, started with current_index 1: two tasks each
C9_Witness ==
  /\ strategy = "RoundRobin"
  /\ alloc_pc = "none"
  /\ Len(workers) = 2
  /\ always_eligible = {1, 2}
  /\ UniformSizes
  /\ Len(tasks) = 4
  /\ current_index = 5
  /\ \A i \in DOMAIN workers :
       workers[i].completed_tasks = 0 /\ Len(workers[i].allocated_tasks) = 2

\* C10: RoundRobin balance under load.  With tasks of one size, two workers
\* that were eligible at every call have been given numbers of tasks that
\* differ by at most one per cycle over the worker list, begun cycles included.
C10_RoundRobinBalance ==
  ( /\ strategy = "RoundRobin"
    /\ alloc_pc = "none"
    /\ UniformSizes )
  => \A a, b \in always_eligible :
       Got(a) - Got(b) <= (Len(tasks) + Len(workers) - 1) \div Len(workers)

\* C11: RoundRobin cursor semantics.  The rotation cursor is a position in the
\* full worker list: each call returns the first eligible worker found scanning
\* the full list cyclically from the cursor and leaves the cursor just past the
\* workers it inspected, or returns None after a full cycle.  Every choice of
\* RoundRobinAllocation.allocate is the choice of that rotation, also when the
\* workers' eligibility changes between the calls.  Stated for a strategy
\* object that is new at the first call.
C11_RoundRobinFullListCursor ==
  (strategy = "RoundRobin" /\ alloc_pc = "selected" /\ reference[3] = 0)
    => alloc_worker = reference[1]

\* the workers that are active and have the memory for the task the strategy
\* was just called with
Candidates ==
  {i \in DOMAIN workers :
     /\ workers[i].is_active
     /\ workers[i].available_memory >= tasks[alloc_task].gpu_memory_required}

Load(i) == Len(workers[i].allocated_tasks)

MaxSkewed(values) ==
  /\ Len(values) >= 2
  /\ SumSeq(values) > 0
  /\ \E i \in DOMAIN values : values[i] = SumSeq(values)

\* every entry of values is the same positive number
EqualPositive(values) ==
  /\ Len(values) >= 1
  /\ \A i \in DOMAIN values : values[i] = values[1] /\ values[i] > 0

\* C14: fairness of a maximally skewed distribution.  For n >= 2 counts of which
\* one holds all k > 0 completions, _calculate_gini_coefficient returns (n-1)/n.
C14_GiniMaxSkew ==
  (gini_call.made /\ MaxSkewed(gini_call.values)) =>
    Same(gini_call.result, Frac(Len(gini_call.values) - 1, Len(gini_call.values)))

\* C15: fairness of an equal distribution.  For n >= 1 identical positive counts
\* _calculate_gini_coefficient returns 0, and so it does for an empty list and
\* for a list whose sum is 0.
C15_GiniEqual ==
  gini_call.made =>
    /\ EqualPositive(gini_call.values) => Same(gini_call.result, Frac(0, 1))
    /\ (gini_call.values = <<>> \/ SumSeq(gini_call.values) = 0)
         => Same(gini_call.result, Frac(0, 1))

\* the method was called with four equal positive counts and returned 0
C15_Witness ==
  /\ gini_call.made
  /\ Len(gini_call.values) = 4
  /\ EqualPositive(gini_call.values)
  /\ gini_call.values[1] > 1
  /\ gini_call.result[1] = 0

\* C16: fairness score range.  The allocation_fairness_score of a report lies in
\* [0, 1).
C16_FairnessRange ==
  main_pc = "done" =>
    /\ ~Less(report.allocation_fairness_score, Frac(0, 1))
    /\ Less(report.allocation_fairness_score, Frac(1, 1))

Ascending(s) == \A i, j \in DOMAIN s : i < j => s[i] <= s[j]

\* the index floor(n * p / 100), clamped to the last index n - 1 (from 0)
ClampedIndex(n, p) == IF (n * p) \div 100 < n - 1 THEN (n * p) \div 100 ELSE n - 1

ReportedPercentile(p) ==
  CASE p = 50 -> report.p50_allocation_latency
    [] p = 95 -> report.p95_allocation_latency
    [] p = 99 -> report.p99_allocation_latency

\* C17: percentile definition.  The report's p50, p95 and p99 are taken from the
\* latency history sorted ascending: for a history of length n >= 1 the element
\* at index min(floor(n * p / 100), n - 1), for an empty history 0.
C17_Percentile ==
  report.test_name # "" =>
    /\ Ascending(allocation_latencies)
    /\ \A p \in {50, 95, 99} :
         ReportedPercentile(p) =
           IF allocation_latencies = <<>> THEN 0
           ELSE allocation_latencies[ClampedIndex(Len(allocation_latencies), p) + 1]

\* a report over the latencies 0, 1, 1, 2: the p50 is the element at index 2,
\* the p95 and the p99 the element at index 3
C17_Witness ==
  /\ report.test_name # ""
  /\ allocation_latencies = <<0, 1, 1, 2>>
  /\ report.p50_allocation_latency = 1
  /\ report.p95_allocation_latency = 2
  /\ report.p99_allocation_latency = 2

\* C18: reported counts.  In the report the pending count is the final queue
\* size and the allocated count is the number of tasks the workers hold at the
\* end of the run, completed tasks not counted, so that pending, allocated and
\* the length of completed_tasks sum to the number of tasks generated.
C18_ReportedCounts ==
  main_pc = "done" =>
    /\ report.tasks_pending = Len(queue)
    /\ report.tasks_allocated = Held
    /\ report.tasks_pending + report.tasks_allocated + Len(completed_tasks)
         = report.total_tasks

\* C19: acceptance verdict.  test_passed of a report is true exactly when the
\* fairness score is below 0.2, the p95 allocation latency is below 0.5 s and
\* the pending tasks are fewer than 5% of the report's own total_tasks, the
\* three verdicts print_results derives from the report.
C19_AcceptanceVerdict ==
  main_pc = "done" =>
    ( report.test_passed <=>
        /\ Less(report.allocation_fairness_score, Frac(2, 10))
        /\ Less(Frac(report.p95_allocation_latency, 1), Frac(5, 10))
        /\ Less(Frac(report.tasks_pending, 1), Frac(report.total_tasks * 5, 100)) )

\* C20: invalid configuration is rejected before anything runs.  With zero
\* workers or with zero duration the allocator and completion loops are never
\* started and no task is generated, enqueued, allocated or completed.
C20_InvalidConfigurationRejected ==
  (Len(workers) = 0 \/ duration = 0) =>
    /\ alloc_pc = "none" /\ proc_pc = "none"
    /\ tasks = <<>> /\ queue = <<>> /\ completed_tasks = <<>>

\* a simulator as its constructor leaves it: every worker has all its memory,
\* holds nothing and has completed nothing; the queue and both histories are empty
FreshSimulator ==
  /\ \A i \in DOMAIN workers : workers[i] = NewWorker(workers[i].gpu_memory)
  /\ queue = <<>>
  /\ completed_tasks = <<>>
  /\ allocation_latencies = <<>>

\* C21: run isolation.  Every call of run_simulation, also a further call on
\* the same simulator object, starts from fresh workers, an empty queue and
\* empty completed and latency histories, and its report has
\* tasks_allocated + tasks_pending = total_tasks of that run.
C21_RunIsolation ==
  /\ main_pc = "start" => FreshSimulator
  /\ main_pc = "done" =>
       /\ report.total_tasks = num_tasks
       /\ report.tasks_allocated + report.tasks_pending = num_tasks

\* every worker of the simulator has is_active false
AllInactive == \A i \in DOMAIN workers : ~workers[i].is_active

\* C22: all workers inactive.  If every worker has is_active false for the whole
\* run then, under every strategy, every allocation attempt returns None, no
\* latency is recorded and no task is allocated or completed; at the end of the
\* run the queue holds all num_tasks tasks and the report counts them as pending
\* and none as allocated.
C22_AllWorkersInactive ==
  AllInactive =>
    /\ alloc_pc = "selected" => alloc_worker = None
    /\ allocation_latencies = <<>>
    /\ Held = 0
    /\ completed_tasks = <<>>
    /\ \A ti \in DOMAIN tasks : tasks[ti].allocated_at = None /\ tasks[ti].worker_id = None
    /\ \A i \in DOMAIN workers : workers[i].completed_tasks = 0
    /\ main_pc = "done" =>
         /\ Len(queue) = num_tasks
         /\ report.tasks_pending = num_tasks
         /\ report.tasks_allocated = 0

\* a finished run of several tasks on a full set of workers, all inactive
C22_Witness ==
  /\ main_pc = "done"
  /\ Len(workers) = MaxWorkers
  /\ AllInactive
  /\ num_tasks = MaxTasks
  /\ report.tasks_pending = MaxTasks

\* C23: zero tasks.  A run with num_tasks = 0 and a positive duration raises
\* nothing and goes on until it returns its report; it generates, allocates and
\* completes nothing, and the report has tasks_allocated = 0, tasks_pending = 0,
\* average, p50, p95 and p99 latency 0 and fairness score 0.
C23_ZeroTasks ==
  (num_tasks = 0 /\ duration # 0) =>
    /\ main_pc # "raised" /\ gen_pc # "raised"
    /\ main_pc # "done" => ENABLED Next
    /\ tasks = <<>> /\ queue = <<>>
    /\ Held = 0 /\ completed_tasks = <<>> /\ allocation_latencies = <<>>
    /\ main_pc = "done" =>
         /\ report.total_tasks = 0
         /\ report.tasks_allocated = 0
         /\ report.tasks_pending = 0
         /\ Same(report.avg_allocation_latency, Frac(0, 1))
         /\ report.p50_allocation_latency = 0
         /\ report.p95_allocation_latency = 0
         /\ report.p99_allocation_latency = 0
         /\ Same(report.allocation_fairness_score, Frac(0, 1))

\* a finished run of zero tasks on a full set of workers
C23_Witness ==
  /\ main_pc = "done"
  /\ num_tasks = 0
  /\ Len(workers) = MaxWorkers
  /\ report.test_name # ""

\* of two dequeue results, b ranks before a: it has the higher priority, or the
\* same priority and the earlier arrival
RanksBefore(b, a) ==
  \/ b.priority > a.priority
  \/ b.priority = a.priority /\ b.arrival < a.arrival

\* the task of result b was in the queue when the dequeue call of result a was made
QueuedWith(b, a) == b.arrival <= a.calls

\* the dequeue order of C24 as first stated: over any sequence of enqueue and
\* dequeue calls no task is dequeued after a task of lower priority, or of equal
\* priority and later arrival
C24_DequeueOrderAcrossEnqueues ==
  \A i, j \in DOMAIN dequeued : i < j => ~RanksBefore(dequeued[j], dequeued[i])

\* C24: dequeue order.  Over any sequence of enqueue and dequeue calls,
\* enqueues between dequeues included, no task is dequeued after a task that was
\* in the queue together with it and has lower priority, or equal priority and
\* later arrival; the results of the dequeues made with no enqueue between them
\* are in priority-then-arrival order.
C24_DequeueOrder ==
  \A i, j \in DOMAIN dequeued :
    (i < j /\ QueuedWith(dequeued[j], dequeued[i]))
      => RanksBefore(dequeued[i], dequeued[j])

\* three dequeues with an enqueue between them: the first two results were
\* queued together and have one priority, the third arrived after the first
\* dequeue and outranks what that dequeue returned
C24_Witness ==
  /\ Len(dequeued) >= 3
  /\ QueuedWith(dequeued[2], dequeued[1])
  /\ dequeued[2].priority = dequeued[1].priority
  /\ ~QueuedWith(dequeued[3], dequeued[1])
  /\ RanksBefore(dequeued[3], dequeued[1])

\* the tasks that have been allocated
Allocated == {ti \in DOMAIN tasks : tasks[ti].allocated_at # None}

\* what the other coroutines can see of the allocations: a task a worker holds
\* names that worker and has its allocation time, a task has both or neither of
\* the two fields, every worker's available memory is its memory less that of the
\* tasks it holds, and there is one latency per allocated task
AllocationsWhole ==
  /\ \A i \in DOMAIN workers :
       /\ \A k \in DOMAIN workers[i].allocated_tasks :
            /\ tasks[workers[i].allocated_tasks[k]].worker_id = i
            /\ workers[i].allocated_tasks[k] \in Allocated
       /\ workers[i].available_memory = workers[i].gpu_memory - HeldMemory(workers[i])
  /\ \A ti \in DOMAIN tasks : (tasks[ti].worker_id # None) <=> (ti \in Allocated)
  /\ Len(allocation_latencies) = Cardinality(Allocated)

\* C25: atomic allocation transaction.  When the strategy has returned a worker
\* for the dequeued task, the allocator's next step, taken without a yield,
\* appends the task to that worker's allocated_tasks, takes exactly the task's
\* gpu_memory_required from its available_memory, sets the task's worker_id to
\* that worker and its allocated_at, and appends exactly one latency, that of
\* the task; at every yield point the allocator holds no task and the
\* allocations the other coroutines see are whole.
C25_AtomicAllocation ==
  [][ /\ (running = "alloc" /\ alloc_pc = "selected" /\ alloc_worker # None) =>
           /\ workers'[alloc_worker].allocated_tasks
                = Append(workers[alloc_worker].allocated_tasks, alloc_task)
           /\ workers'[alloc_worker].available_memory
                = workers[alloc_worker].available_memory
                  - tasks[alloc_task].gpu_memory_required
           /\ \A i \in DOMAIN workers \ {alloc_worker} : workers'[i] = workers[i]
           /\ tasks'[alloc_task].worker_id = alloc_worker
           /\ tasks[alloc_task].allocated_at = None
           /\ tasks'[alloc_task].allocated_at = clock
           /\ allocation_latencies'
                = Append(allocation_latencies, clock - tasks[alloc_task].created_at)
           /\ running' = "alloc"
      /\ AtYield' => (alloc_task' = None /\ AllocationsWhole')
    ]_vars

\* the allocator has just allocated a task to a worker that held one already,
\* and another task waits in the queue
C25_Witness ==
  /\ running = "alloc" /\ alloc_pc = "top"
  /\ \E i \in DOMAIN workers : Len(workers[i].allocated_tasks) >= 2
  /\ Len(allocation_latencies) >= 2
  /\ queue # <<>>

\* this step cancels the two loops
Cancels == alloc_pc # "cancelled" /\ alloc_pc' = "cancelled"

C27_DrainOrdering ==
  /\ gen_pc # "cancelled"
  /\ (alloc_pc = "cancelled" \/ proc_pc = "cancelled") =>
       /\ gen_pc = "done"
       /\ gen_i = num_tasks /\ Len(tasks) = num_tasks
       /\ main_pc = "done"

\* this step completes something: the completed list, a worker's counter or a
\* worker's allocated_tasks shows it
Completes ==
  \/ completed_tasks' # completed_tasks
  \/ \E i \in DOMAIN workers :
       \/ workers'[i].completed_tasks # workers[i].completed_tasks
       \/ Len(workers'[i].allocated_tasks) < Len(workers[i].allocated_tasks)

\* C28: completion effects.  Each completion is of one task ti held by one
\* worker i: it removes exactly ti from the worker's allocated_tasks, adds
\* exactly ti's gpu_memory_required to its available_memory and 1 to its
\* completed_tasks counter and appends ti, once, to the simulator's completed
\* list, in one step of the completion loop taken without a yield; the other
\* workers, the queue, the tasks and the latencies are unchanged.
C28_CompletionEffects ==
  [][ Completes =>
        \E i \in DOMAIN workers :
          \E ti \in Range(workers[i].allocated_tasks) :
            /\ Resumes("proc", proc_pc) /\ proc_i = i
            /\ running' = "proc"
            /\ workers'[i].allocated_tasks = RemoveFirst(workers[i].allocated_tasks, ti)
            /\ ti \notin Range(workers'[i].allocated_tasks)
            /\ Len(workers'[i].allocated_tasks) = Len(workers[i].allocated_tasks) - 1
            /\ workers'[i].available_memory
                 = workers[i].available_memory + tasks[ti].gpu_memory_required
            /\ workers'[i].completed_tasks = workers[i].completed_tasks + 1
            /\ workers'[i].gpu_memory = workers[i].gpu_memory
            /\ workers'[i].is_active = workers[i].is_active
            /\ completed_tasks' = Append(completed_tasks, ti)
            /\ Occurrences(completed_tasks', ti) = 1
            /\ \A j \in DOMAIN workers \ {i} : workers'[j] = workers[j]
            /\ UNCHANGED <<queue, tasks, allocation_latencies>>
    ]_vars

\* the completion loop has just completed a task of a worker that still holds
\* another one, while the other worker holds tasks and the queue is not empty
C28_Witness ==
  /\ running = "proc" /\ proc_pc = "for" /\ proc_i = 2
  /\ Len(workers) = 2
  /\ completed_tasks # <<>>
  /\ tasks[completed_tasks[Len(completed_tasks)]].worker_id = 1
  /\ workers[1].completed_tasks >= 1
  /\ workers[1].allocated_tasks # <<>>
  /\ workers[2].allocated_tasks # <<>>
  /\ queue # <<>>

\* the completion loop has control and its for loop is at worker i
ProcessorAt(i) == Resumes("proc", proc_pc) /\ proc_i = i

\* C29: independent completion.  In one tick of the completion loop every
\* allocated task of every worker completes or not independently of the others:
\* when the loop comes to a worker, every subset of the tasks the worker holds,
\* also one of two or more tasks, can be what completes in this tick.
C29_IndependentCompletion ==
  \A i \in DOMAIN workers :
    ProcessorAt(i) =>
      \A done \in SUBSET Range(workers[i].allocated_tasks) :
        ENABLED ( /\ ProcessSkip \/ ProcessComplete
                  /\ proc_i' = i + 1
                  /\ Range(workers'[i].allocated_tasks)
                       = Range(workers[i].allocated_tasks) \ done )

\* the workers that hold task ti
Holders(ti) == {i \in DOMAIN workers : ti \in Range(workers[i].allocated_tasks)}

\* C30: single allocation per task.  A task is created with allocated_at and
\* worker_id unset and keeps them unset, and is held by no worker and not
\* completed, until the step that allocates it, which sets both and puts it on
\* the worker it names; from then on the task's fields never change, it is
\* never in the queue or in the allocator's hands again and no worker that did
\* not hold it comes to hold it; created_at never changes.
C30_SingleAllocation ==
  [][ /\ \A ti \in DOMAIN tasks :
           /\ tasks'[ti].created_at = tasks[ti].created_at
           /\ (tasks[ti].allocated_at = None) <=> (tasks[ti].worker_id = None)
           /\ tasks[ti].allocated_at = None =>
                /\ Holders(ti) = {}
                /\ ti \notin Range(completed_tasks)
           /\ (tasks[ti].allocated_at = None /\ tasks'[ti].allocated_at # None) =>
                /\ alloc_task = ti /\ alloc_worker # None
                /\ tasks'[ti].allocated_at = clock
                /\ tasks'[ti].worker_id = alloc_worker
                /\ Holders(ti)' = {alloc_worker}
           /\ tasks[ti].allocated_at # None =>
                /\ tasks'[ti] = tasks[ti]
                /\ ti \notin Range(queue) /\ ti \notin Range(queue')
                /\ alloc_task # ti /\ alloc_task' # ti
                /\ Holders(ti)' \subseteq Holders(ti)
                /\ Holders(ti) \subseteq {tasks[ti].worker_id}
      /\ \A ti \in DOMAIN tasks' \ DOMAIN tasks :
           tasks'[ti].allocated_at = None /\ tasks'[ti].worker_id = None
    ]_vars

\* one task allocated and completed, one allocated and held, and one created
\* at an earlier clock reading that is in the queue, still unallocated
C30_Witness ==
  \E a, b, c \in DOMAIN tasks :
    /\ a \in Range(completed_tasks) /\ tasks[a].allocated_at # None
    /\ Holders(b) # {} /\ tasks[b].allocated_at # None
    /\ c \in Range(queue) /\ tasks[c].allocated_at = None
    /\ tasks[c].created_at < clock

\* the place of task ti in queue q
Place(q, ti) == CHOOSE k \in DOMAIN q : q[k] = ti

\* the allocator, with the task it dequeued in hand, has been given no worker:
\* its next step re-enqueues the task
AttemptFailed == running = "alloc" /\ alloc_pc = "selected" /\ alloc_worker = None

\* the allocator has been given a worker: its next step allocates the task
AttemptSucceeds == running = "alloc" /\ alloc_pc = "selected" /\ alloc_worker # None

\* re-queue overtaking as first stated, for equal and for lower priority alike:
\* the task re-enqueued after a failed attempt stands behind every queued task
\* that arrived after it with equal or lower priority, so that such a task is
\* taken, and can be allocated, before it
C31_RequeueOvertaking ==
  [][AttemptFailed =>
       \A u \in Range(queue) :
         (u > alloc_task /\ tasks[u].priority <= tasks[alloc_task].priority)
           => Place(queue', u) < Place(queue', alloc_task)]_vars

\* C31: re-queue overtaking.  A task that failed an allocation attempt is
\* re-enqueued behind every queued task of equal priority, also those that
\* arrived after it, which are then taken and can be allocated before it; it
\* is re-enqueued ahead of every queued task of strictly lower priority, and no
\* task is allocated while a task of higher priority that arrived before it is
\* in the queue: a task of lower priority never overtakes.
C31_RequeueOvertakingEqual ==
  [][ /\ AttemptFailed =>
           /\ alloc_task \in Range(queue')
           /\ \A u \in Range(queue) :
                /\ tasks[u].priority = tasks[alloc_task].priority
                     => Place(queue', u) < Place(queue', alloc_task)
                /\ tasks[u].priority < tasks[alloc_task].priority
                     => Place(queue', alloc_task) < Place(queue', u)
      /\ AttemptSucceeds =>
           \A t \in Range(queue) :
             t < alloc_task => tasks[t].priority <= tasks[alloc_task].priority
    ]_vars

\* a task waits unallocated in the queue while a task of its priority that
\* was generated after it has been allocated
C31_Witness ==
  \E t, u \in DOMAIN tasks :
    /\ t < u
    /\ tasks[t].priority = tasks[u].priority
    /\ t \in Range(queue) /\ tasks[t].allocated_at = None
    /\ tasks[u].allocated_at # None

\* some worker can accept task ti
Fits(ti) == \E i \in DOMAIN workers : can_accept_task(workers[i], tasks[ti])

\* C32: strict priority with head-of-line blocking.  Whenever the allocator
\* allocates a task, no task of strictly higher priority is in the queue; so a
\* step that allocates a task leaves in the queue no task of higher priority,
\* whether or not the allocated task would have fitted where the queued one
\* does not: while a task of priority p waits that no worker can take, no task
\* of lower priority is allocated.
C32_StrictPriority ==
  [][ /\ AttemptSucceeds =>
           \A t \in Range(queue) : tasks[t].priority <= tasks[alloc_task].priority
      /\ \A u \in Allocated' \ Allocated :
           \A t \in Range(queue') :
             /\ tasks[t].priority <= tasks[u].priority
             /\ ~Fits(t) => tasks[t].priority <= tasks[u].priority
    ]_vars

\* the allocator sleeps after a failed attempt: the task at the head of the
\* queue fits no worker, and behind it waits a task of lower priority that
\* would fit
C32_Witness ==
  /\ running = "loop" /\ alloc_pc = "sleep"
  /\ Len(queue) >= 2
  /\ ~Fits(queue[1])
  /\ \E k \in DOMAIN queue :
       /\ tasks[queue[k]].priority < tasks[queue[1]].priority
       /\ Fits(queue[k])

\* this step is a call of strategy.allocate
StrategyCalled == alloc_pc # "selected" /\ alloc_pc' = "selected"

\* C33: strategies do not mutate shared state.  A call of allocate(task,
\* workers), under each strategy, leaves the caller's list of workers as it
\* was, in content and order, every worker's available_memory,
\* allocated_tasks, completed_tasks and is_active with it, and leaves every
\* task as it was, the task of the call as it was created; of the strategy
\* only RoundRobin's current_index may change.
C33_StrategiesPure ==
  [][StrategyCalled =>
       /\ workers' = workers
       /\ \A ti \in DOMAIN tasks : tasks'[ti] = tasks[ti]
       /\ \A ti \in DOMAIN tasks' \ DOMAIN tasks :
            /\ ti = alloc_task'
            /\ tasks'[ti].allocated_at = None /\ tasks'[ti].worker_id = None
       /\ strategy' = strategy
       /\ strategy # "RoundRobin" => current_index' = current_index
       /\ UNCHANGED <<queue, completed_tasks, allocation_latencies>>]_vars

\* a strategy that sorts has returned a worker from a list whose first worker
\* holds more tasks and has less memory left than the second
C33_Witness ==
  /\ alloc_pc = "selected" /\ alloc_worker # None
  /\ strategy # "RoundRobin"
  /\ Len(workers) >= 2
  /\ Len(workers[1].allocated_tasks) > Len(workers[2].allocated_tasks)
  /\ workers[1].available_memory < workers[2].available_memory

\* C34: deactivated workers drain.  A worker whose is_active is false, also
\* one that became inactive while it held tasks, is returned by no strategy and
\* gains no task; Worker.allocate_task on it, for any task, is rejected and
\* changes nothing; when the completion loop comes to it while it holds tasks,
\* a task of it can complete, and each completion gives the task's memory back
\* and adds 1 to its completed_tasks counter.
C34_DeactivatedWorkersDrain ==
  [][\A i \in DOMAIN workers :
       ~workers[i].is_active =>
         /\ alloc_pc' = "selected" => alloc_worker' # i
         /\ Len(workers'[i].allocated_tasks) <= Len(workers[i].allocated_tasks)
         /\ Range(workers'[i].allocated_tasks) \subseteq Range(workers[i].allocated_tasks)
         /\ \A ti \in DOMAIN tasks :
              /\ ~can_accept_task(workers[i], tasks[ti])
              /\ WorkerAllocate(workers[i], ti, tasks[ti]) = workers[i]
         /\ (ProcessorAt(i) /\ workers[i].allocated_tasks # <<>>) =>
              ENABLED (ProcessComplete /\ proc_i' = i + 1)
         /\ Len(workers'[i].allocated_tasks) < Len(workers[i].allocated_tasks) =>
              /\ workers'[i].available_memory > workers[i].available_memory
              /\ workers'[i].available_memory + HeldMemory(workers'[i])
                   = workers[i].gpu_memory
              /\ workers'[i].completed_tasks = workers[i].completed_tasks + 1
              /\ Len(completed_tasks') = Len(completed_tasks) + 1
    ]_vars

\* an inactive worker that has completed a task of those it held still holds
\* one, has room for another, and a task waits in the queue unallocated
C34_Witness ==
  /\ alloc_pc = "sleep" /\ queue # <<>>
  /\ \E i \in DOMAIN workers :
       /\ ~workers[i].is_active
       /\ workers[i].completed_tasks >= 1
       /\ workers[i].allocated_tasks # <<>>
       /\ Fits(queue[1]) = FALSE
       /\ workers[i].available_memory >= tasks[queue[1]].gpu_memory_required

\* the sum of the workers' completed_tasks counters
CompletedCount == SumSeq([i \in DOMAIN workers |-> workers[i].completed_tasks])

\* C35: counter consistency.  No step of a run lowers a worker's
\* completed_tasks counter; at every yield point the counters of all workers
\* add up to the length of the simulator's completed list, and the number of
\* recorded latencies is that length plus the number of tasks the workers hold.
C35_CounterConsistency ==
  [][ /\ \A i \in DOMAIN workers :
           workers'[i].completed_tasks >= workers[i].completed_tasks
      /\ AtYield' =>
           /\ CompletedCount' = Len(completed_tasks')
           /\ Len(allocation_latencies') = Len(completed_tasks') + Held'
    ]_vars

\* at a yield point both workers have completed a task and one holds another
C35_Witness ==
  /\ running = "loop"
  /\ Len(workers) = 2
  /\ workers[1].completed_tasks >= 1 /\ workers[2].completed_tasks >= 1
  /\ Held >= 1
  /\ Len(allocation_latencies) >= 3

\* v in ascending order: the ascending list with the entries of v, each as
\* often as in v
AscendingOf(v) ==
  CHOOSE w \in [DOMAIN v -> Range(v)] :
    /\ Ascending(w)
    /\ \A x \in Range(v) : Occurrences(w, x) = Occurrences(v, x)

\* v rearranged by the permutation f of its positions
Rearranged(v, f) == [k \in DOMAIN v |-> v[f[k]]]

\* C36: Gini formula.  For every list v of n non-negative counts with sum
\* S > 0, _calculate_gini_coefficient returns
\* 2 * (sum over i = 0..n-1 of (n - i) * w[i]) / (n * S) - (n + 1) / n, where w
\* is v in ascending order, and returns the same for every rearrangement of v.
C36_GiniFormula ==
  (gini_call.made /\ SumSeq(gini_call.values) > 0) =>
    LET v == gini_call.values
        n == Len(v)
        S == SumSeq(v)
        w == AscendingOf(v)
        weighted == SumSeq([k \in 1..n |-> (n - (k - 1)) * w[k]])
    IN  /\ Same(gini_call.result, Minus(Frac(2 * weighted, n * S), Frac(n + 1, n)))
        /\ \A f \in Permutations(1..n) :
             Same(calculate_gini_coefficient(Rearranged(v, f)), gini_call.result)

\* the method was called with four counts that are not in ascending order and
\* not all equal
C36_Witness ==
  /\ gini_call.made
  /\ Len(gini_call.values) = 4
  /\ gini_call.values[1] > gini_call.values[2]
  /\ gini_call.values[3] > gini_call.values[4]
  /\ gini_call.values[4] > 0

\* some active worker's whole memory is enough for task ti
Servable(ti) ==
  \E i \in DOMAIN workers :
    workers[i].is_active /\ workers[i].gpu_memory >= tasks[ti].gpu_memory_required

\* task ti is waiting: in the queue, or dequeued and in the allocator's hands
Pending(ti) == ti \in Range(queue) \/ alloc_task = ti

\* C37: eventual allocation.  While the loops are not cancelled and every task
\* a worker holds is eventually completed, every generated task whose
\* requirement is at most the memory of some active worker is eventually
\* allocated, under each strategy: as a run generates finitely many tasks, from
\* some point on all such tasks are allocated.  Until it is allocated the
\* allocator keeps a task pending (it is in the queue or being tried), whatever
\* the number of failed attempts.
C37_EventualAllocation ==
  /\ [](\A ti \in DOMAIN tasks : ti \notin Allocated => Pending(ti))
  /\ <>[](\A ti \in DOMAIN tasks : Servable(ti) => ti \in Allocated)

\* four tasks have been allocated on the only active worker, which holds at
\* most three at a time: one of them had to wait for a completion
C37_Witness ==
  /\ Cardinality(Allocated) = 4
  /\ Cardinality({i \in DOMAIN workers : workers[i].is_active}) = 1
  /\ completed_tasks # <<>>

\* the steps allocate_tasks has left, at most, before its next sleep: three for
\* every task in the queue (dequeue, select, allocate), and those left for the
\* task it has in its hands
BurstMeasure ==
  3 * Len(queue) + (CASE alloc_pc = "dequeued" -> 2
                      [] alloc_pc = "selected" -> 1
                      [] OTHER -> 0)

\* a step of allocate_tasks after which it still has control
AllocatorKeepsControl ==
  running' = "alloc" /\ (running = "alloc" \/ alloc_pc' # alloc_pc)

\* C38: allocator always yields.  While allocate_tasks has control it can
\* always take a step, every step after which it still has control lowers
\* BurstMeasure, which is never negative and counts three steps per queued
\* task, and nothing is added to the queue meanwhile; when it gives up control
\* it is in one of its sleeps.  So it reaches a sleep after finitely many
\* steps, with at most one allocation per task that was in the queue when it
\* resumed.
C38_AllocatorYields ==
  [][/\ running = "alloc" => ENABLED AllocatorSteps
     /\ AllocatorKeepsControl =>
          /\ BurstMeasure' < BurstMeasure
          /\ Len(queue') <= Len(queue)
          /\ Cardinality(Allocated') <= Cardinality(Allocated) + 1
     /\ (running = "alloc" /\ running' # "alloc") =>
          running' = "loop" /\ alloc_pc' = "sleep"]_vars

\* allocate_tasks has allocated a task and goes on, without a sleep, with
\* two tasks still in the queue
C38_Witness ==
  /\ running = "alloc" /\ alloc_pc = "top"
  /\ Allocated # {}
  /\ Len(queue) >= 2

\* the number of entries of workers' allocated_tasks that are task ti
Holdings(ti) ==
  SumSeq([i \in DOMAIN workers |-> Occurrences(workers[i].allocated_tasks, ti)])

\* C39: the Worker API guards task uniqueness.  For any sequence of
\* allocate_task and complete_task calls on any workers with any tasks, a task
\* is never held by two workers at once nor twice by one worker, and an
\* allocate_task call for a task that is held changes no state.
C39_WorkerApiUniqueness ==
  /\ [](\A ti \in DOMAIN tasks : Holdings(ti) <= 1)
  /\ [][\A ti \in DOMAIN tasks :
          Holdings(ti) >= 1 => tasks'[ti] = tasks[ti] /\ Holdings(ti)' <= Holdings(ti)]_vars

\* the strategy has returned a worker for the dequeued task
WorkerSelected == alloc_pc = "selected" /\ alloc_worker # None

\* C40: selection implies success.  Whenever the strategy has returned a worker
\* for a task, that worker can accept the task, and the step that follows is
\* worker.allocate_task(task) returning True: the worker holds the task, the
\* task is not re-enqueued and allocate_tasks goes on without a sleep.  No
\* other coroutine, and no code outside the run, acts in between.
C40_SelectionImpliesSuccess ==
  [][WorkerSelected =>
       /\ can_accept_task(workers[alloc_worker], tasks[alloc_task])
       /\ alloc_task \in Range(workers'[alloc_worker].allocated_tasks)
       /\ tasks'[alloc_task].worker_id = alloc_worker
       /\ queue' = queue
       /\ alloc_pc' = "top" /\ running' = "alloc"]_vars

\* the strategy has returned a worker while another worker of the simulator is
\* inactive
C40_Witness ==
  /\ WorkerSelected
  /\ \E i \in DOMAIN workers : ~workers[i].is_active

====
